---- MODULE Spec2Model ----
(***************************************************************************)
(* Booking subsystem of BE-Cinema: BookingsService, ShowtimesService and   *)
(* PaymentsService over one showtime document, the bookings collection and *)
(* the payments collection.  Every storage round trip (await) of a handler *)
(* is one step of the process that runs the handler.                       *)
(*                                                                         *)
(* Time is counted in ticks of 5 minutes: the seat-hold TTL of 10 minutes  *)
(* is 2 ticks, the booking expiry of 15 minutes is 3 ticks.                *)
(***************************************************************************)
EXTENDS Integers, Sequences, FiniteSets, TLC

\* ---------------------------------------------------------------- bounds
MaxTime == 4
MaxBookings == 3
MaxPayments == 2
SigSpace == 2

\* ------------------------------------------------------ program constants
HOLD_TTL == 2
EXPIRY_WINDOW == 3
TotalSeats == 80

\* ------------------------------------------------------------ input sets
Users == {"u1", "u2"}
SeatLists == {<<"A1">>}
RaceSeatLists == {<<"A1">>, <<"A2">>, <<"A1", "A2">>}
Procs == {"p1", "p2"}
SeqProcs == {"p1"}
ResponseCodes == {"00", "24"}
TransactionStatuses == {"absent", "00", "02"}
ResultCodes == {0, 1006}
Signatures == 0..(SigSpace - 1)
ShowtimePrice == 100
Amounts == {ShowtimePrice, ShowtimePrice \div 2}

VARIABLES
  now,              \* Date.now(), in ticks
  bookedSeats,      \* Showtime.bookedSeats: array of seat labels
  tempLockedSeats,  \* Showtime.tempLockedSeats: array of {seat, userId, expiresAt}
  bookings,         \* bookings collection; the index is the booking id
  payments,         \* payments collection; the index is the payment id
  pc,               \* per request: position inside its handler
  loc,              \* per request: the handler's arguments and local variables
  hist              \* last gateway callback processed and the state it left

vars == <<now, bookedSeats, tempLockedSeats, bookings, payments, pc, loc, hist>>
store == <<bookedSeats, tempLockedSeats, bookings, payments>>

\* ---------------------------------------------------------------- helpers
Range(s) == {s[i] : i \in DOMAIN s}

BookingIds == 1..Len(bookings)
PaymentIds == 1..Len(payments)

NoData == [kind |-> "none", ref |-> 0, code |-> "none", ts |-> "none", rcode |-> 0 - 1, sig |-> 0]

Idle == [op |-> "none", userId |-> "none", seats |-> <<>>, exp |-> 0,
         b |-> 0, pay |-> 0, amount |-> 0, list |-> <<>>, snap |-> <<>>, stale |-> FALSE,
         doc |-> <<>>, data |-> NoData, ret |-> "none"]

NoHist == [cb |-> NoData, snap |-> <<>>, rep |-> FALSE]

\* First index of s that satisfies Test, 0 when there is none (Model.findOne).
FindFirst(s, Test(_)) ==
  IF \E i \in DOMAIN s : Test(s[i])
    THEN CHOOSE i \in DOMAIN s : Test(s[i]) /\ \A j \in 1..(i - 1) : ~Test(s[j])
    ELSE 0

\* $pull: { tempLockedSeats: { expiresAt: { $lt: t } } }
PullExpired(locks, t) ==
  LET Keep(l) == ~(l.expiresAt < t) IN SelectSeq(locks, Keep)

\* newLocks = seats.map(seat => ({ seat, userId, expiresAt }))
NewLocks(seats, u, exp) ==
  [i \in 1..Len(seats) |-> [seat |-> seats[i], userId |-> u, expiresAt |-> exp]]

\* Mutation of LockFilter: the hold check is dropped from the update filter.
LockFilterNoHoldCheck(seats) ==
  \A i \in DOMAIN bookedSeats : bookedSeats[i] \notin Range(seats)

\* filter of the atomic updateOne: bookedSeats $nin seats, tempLockedSeats.seat $nin seats
LockFilter(seats) ==
  /\ \A i \in DOMAIN bookedSeats : bookedSeats[i] \notin Range(seats)
  /\ \A i \in DOMAIN tempLockedSeats : tempLockedSeats[i].seat \notin Range(seats)

\* $pull: { tempLockedSeats: { seat: { $in: seats }, userId } }
UnlockSeats(locks, seats, u) ==
  LET Keep(l) == ~(l.seat \in Range(seats) /\ l.userId = u) IN SelectSeq(locks, Keep)

\* $pull: { tempLockedSeats: { seat: { $in: seats } } }
PullSeatLocks(locks, seats) ==
  LET Keep(l) == l.seat \notin Range(seats) IN SelectSeq(locks, Keep)

\* bookedSeats.filter(seat => !seats.includes(seat))
WithoutSeats(booked, seats) ==
  LET Keep(s) == s \notin Range(seats) IN SelectSeq(booked, Keep)

\* A Mongoose save that increments __v makes every other loaded showtime
\* document stale: its next versioned save fails with a VersionError.
Bump(p, l) ==
  [q \in Procs |-> IF q # p /\ pc[q] \in {"cn_relSave", "sn_save"}
                     THEN [l[q] EXCEPT !.stale = TRUE] ELSE l[q]]

ActiveCreates == Cardinality({q \in Procs : loc[q].op = "create" /\ loc[q].b = 0 /\ pc[q] # "done"})
ActiveIntents == Cardinality({q \in Procs : loc[q].op \in {"pay_create", "vnp_create", "momo_create"}
                                              /\ pc[q] # "done"})

Goto(p, label) == pc' = [pc EXCEPT ![p] = label]
Done(p, l, r) ==
  /\ pc' = [pc EXCEPT ![p] = "done"]
  /\ loc' = [l EXCEPT ![p].ret = r]

\* -------------------------------------------------------------------- Init
Init ==
  /\ now = 0
  /\ bookedSeats = <<>>
  /\ tempLockedSeats = <<>>
  /\ bookings = <<>>
  /\ payments = <<>>
  /\ pc = [p \in Procs |-> "idle"]
  /\ loc = [p \in Procs |-> Idle]
  /\ hist = NoHist

\* ------------------------------------------------- BookingsService.create
\* create entry and lockSeatsInDB up to the purge of expired locks
CreateStart(p, u, seats) ==
  /\ pc[p] = "idle"
  /\ Len(bookings) + ActiveCreates < MaxBookings
  /\ tempLockedSeats' = PullExpired(tempLockedSeats, now)
  /\ loc' = [loc EXCEPT ![p] = [Idle EXCEPT !.op = "create", !.userId = u,
                                            !.seats = seats, !.exp = now + HOLD_TTL]]
  /\ Goto(p, "cr_lock")
  /\ hist' = NoHist
  /\ UNCHANGED <<now, bookedSeats, bookings, payments>>

\* lockSeatsInDB: the conditional $push; success is modifiedCount > 0, and a
\* $push of an empty $each modifies nothing; on failure create throws
\* ConflictException
CreateLock(p) ==
  /\ pc[p] = "cr_lock"
  /\ IF LockFilter(loc[p].seats) /\ loc[p].seats # <<>>
       THEN /\ tempLockedSeats' = tempLockedSeats \o
                                    NewLocks(loc[p].seats, loc[p].userId, loc[p].exp)
            /\ Goto(p, "cr_find")
            /\ UNCHANGED loc
       ELSE /\ loc' = [loc EXCEPT ![p].ret = "conflict"]
            /\ Goto(p, "cr_catch")
            /\ UNCHANGED tempLockedSeats
  /\ UNCHANGED <<now, bookedSeats, bookings, payments, hist>>

\* showtimesService.findOne and the double check against bookedSeats
CreateFind(p) ==
  /\ pc[p] = "cr_find"
  /\ IF \E i \in DOMAIN loc[p].seats : loc[p].seats[i] \in Range(bookedSeats)
       THEN /\ loc' = [loc EXCEPT ![p].ret = "bad_request"]
            /\ Goto(p, "cr_unlock")
       ELSE /\ Goto(p, "cr_save")
            /\ UNCHANGED loc
  /\ UNCHANGED <<now, store, hist>>

\* Mutation of CreateSave: totalPrice is the price of one seat.
CreateSaveFlatPrice(p) ==
  /\ pc[p] = "cr_save"
  /\ loc' = [loc EXCEPT ![p].doc = <<[userId |-> loc[p].userId, seats |-> loc[p].seats,
                                      status |-> "pending", createdAt |-> now,
                                      totalPrice |-> ShowtimePrice]>>]
  /\ Goto(p, "cr_commit")
  /\ UNCHANGED <<now, store, hist>>

\* booking.save({ session }): the row is written inside the transaction
CreateSave(p) ==
  /\ pc[p] = "cr_save"
  /\ loc' = [loc EXCEPT ![p].doc = <<[userId |-> loc[p].userId, seats |-> loc[p].seats,
                                      status |-> "pending", createdAt |-> now,
                                      totalPrice |-> Len(loc[p].seats) * ShowtimePrice]>>]
  /\ Goto(p, "cr_commit")
  /\ UNCHANGED <<now, store, hist>>

\* booking.save fails: generateBookingCode drew a code that an existing
\* booking already has, and the unique index on bookingCode rejects the insert
CreateSaveDuplicateCode(p) ==
  /\ pc[p] = "cr_save"
  /\ Len(bookings) > 0
  /\ loc' = [loc EXCEPT ![p].ret = "error"]
  /\ Goto(p, "cr_catch")
  /\ UNCHANGED <<now, store, hist>>

\* session.commitTransaction(): the booking row becomes visible
CreateCommit(p) ==
  /\ pc[p] = "cr_commit"
  /\ bookings' = bookings \o loc[p].doc
  /\ loc' = [loc EXCEPT ![p].b = Len(bookings) + 1, ![p].doc = <<>>]
  /\ Goto(p, "cr_notify")
  /\ UNCHANGED <<now, bookedSeats, tempLockedSeats, payments, hist>>

\* notifySeatUpdate resolves; create returns the booking
CreateNotify(p) ==
  /\ pc[p] = "cr_notify"
  /\ Done(p, loc, "ok")
  /\ UNCHANGED <<now, store, hist>>

\* notifySeatUpdate rejects after the commit: the catch block calls
\* abortTransaction on a committed session, which throws, so the unlock is
\* skipped and the error reaches the caller
CreateNotifyFails(p) ==
  /\ pc[p] = "cr_notify"
  /\ Done(p, loc, "error")
  /\ UNCHANGED <<now, store, hist>>

\* unlockSeatsInDB, called before the BadRequestException and in the catch block
CreateUnlock(p) ==
  /\ pc[p] \in {"cr_unlock", "cr_catch"}
  /\ tempLockedSeats' = UnlockSeats(tempLockedSeats, loc[p].seats, loc[p].userId)
  /\ IF pc[p] = "cr_unlock"
       THEN Goto(p, "cr_catch") /\ UNCHANGED loc
       ELSE Done(p, [loc EXCEPT ![p].doc = <<>>], loc[p].ret)
  /\ UNCHANGED <<now, bookedSeats, bookings, payments, hist>>

\* ----------------------------------------- BookingsService.confirmBooking
\* What the caller of confirmBooking hands back: the admin endpoint and
\* processPayment propagate the exception, the VNPay handlers let it escape,
\* handleMoMoReturn and handleMoMoIPN swallow it.
ConfirmRet(op, outcome) ==
  CASE op \in {"confirm", "process"} -> IF outcome = "returned" THEN "ok" ELSE outcome
    [] op \in {"vnp_return", "vnp_ipn"} -> IF outcome = "returned" THEN "success" ELSE outcome
    [] op = "momo_return" -> "success"
    [] op = "momo_ipn" -> IF outcome = "returned" THEN "ack_success" ELSE "ack"
    [] OTHER -> outcome

\* PATCH /bookings/:id/confirm (admin): the controller calls confirmBooking
AdminConfirmStart(p, b) ==
  /\ pc[p] = "idle"
  /\ b \in BookingIds
  /\ loc' = [loc EXCEPT ![p] = [Idle EXCEPT !.op = "confirm", !.b = b]]
  /\ Goto(p, "cf_find")
  /\ hist' = NoHist
  /\ UNCHANGED <<now, store>>

\* Mutation of ConfirmFind: the early return for a CONFIRMED booking is dropped.
ConfirmFindNoEarlyReturn(p) ==
  /\ pc[p] = "cf_find"
  /\ LET b == loc[p].b
         l == [loc EXCEPT ![p].doc = <<bookings[b]>>]
     IN
       IF b \notin BookingIds
         THEN Done(p, loc, ConfirmRet(loc[p].op, "not_found"))
       ELSE IF bookings[b].status \notin {"pending", "confirmed"}
         THEN Done(p, l, ConfirmRet(loc[p].op, "bad_request"))
       ELSE Goto(p, "cf_bookRead") /\ loc' = l
  /\ UNCHANGED <<now, store, hist>>

\* findById and the status checks; doc is the booking document as loaded
ConfirmFind(p) ==
  /\ pc[p] = "cf_find"
  /\ LET b == loc[p].b
         l == [loc EXCEPT ![p].doc = <<bookings[b]>>]
     IN
       IF b \notin BookingIds
         THEN Done(p, loc, ConfirmRet(loc[p].op, "not_found"))
       ELSE IF bookings[b].status = "confirmed"
         THEN Done(p, l, ConfirmRet(loc[p].op, "returned"))
       ELSE IF bookings[b].status # "pending"
         THEN Done(p, l, ConfirmRet(loc[p].op, "bad_request"))
       ELSE Goto(p, "cf_bookRead") /\ loc' = l
  /\ UNCHANGED <<now, store, hist>>

\* ShowtimesService.bookSeats: findOne and the alreadyBooked check
ConfirmBookRead(p) ==
  /\ pc[p] = "cf_bookRead"
  /\ LET seats == bookings[loc[p].b].seats IN
       IF \E i \in DOMAIN seats : seats[i] \in Range(bookedSeats)
         THEN Done(p, loc, ConfirmRet(loc[p].op, "bad_request"))
         ELSE Goto(p, "cf_bookSave") /\ UNCHANGED loc
  /\ UNCHANGED <<now, store, hist>>

\* ShowtimesService.bookSeats: bookedSeats.push(...seats); save()
ConfirmBookSave(p) ==
  /\ pc[p] = "cf_bookSave"
  /\ bookedSeats' = bookedSeats \o bookings[loc[p].b].seats
  /\ loc' = Bump(p, loc)
  /\ Goto(p, "cf_pull")
  /\ UNCHANGED <<now, tempLockedSeats, bookings, payments, hist>>

\* $pull of every temp lock on the booking's seats, whoever holds it
ConfirmPull(p) ==
  /\ pc[p] = "cf_pull"
  /\ tempLockedSeats' = PullSeatLocks(tempLockedSeats, bookings[loc[p].b].seats)
  /\ Goto(p, "cf_save")
  /\ UNCHANGED <<now, bookedSeats, bookings, payments, loc, hist>>

\* booking.status = CONFIRMED; save(); then notification, QR code and e-mail
ConfirmSave(p) ==
  /\ pc[p] = "cf_save"
  /\ bookings' = [bookings EXCEPT ![loc[p].b].status = "confirmed"]
  /\ Done(p, loc, ConfirmRet(loc[p].op, "returned"))
  /\ UNCHANGED <<now, bookedSeats, tempLockedSeats, payments, hist>>

\* ------------------------------------------ BookingsService.cancelBooking
CancelRet(op, outcome) ==
  CASE op \in {"cancel", "refund"} -> IF outcome = "returned" THEN "ok" ELSE outcome
    [] op = "momo_return" -> "failure"
    [] op = "momo_ipn" -> IF outcome = "returned" THEN "ack_success" ELSE "ack"
    [] OTHER -> outcome

\* PATCH /bookings/:id/cancel: the controller calls cancelBooking
UserCancelStart(p, b) ==
  /\ pc[p] = "idle"
  /\ b \in BookingIds
  /\ loc' = [loc EXCEPT ![p] = [Idle EXCEPT !.op = "cancel", !.b = b]]
  /\ Goto(p, "cn_find")
  /\ hist' = NoHist
  /\ UNCHANGED <<now, store>>

\* Mutation of CancelFind: the rejection of a CONFIRMED booking is dropped.
CancelFindAllowsConfirmed(p) ==
  /\ pc[p] = "cn_find"
  /\ LET b == loc[p].b
         l == [loc EXCEPT ![p].doc = <<bookings[b]>>]
     IN
       IF b \notin BookingIds
         THEN Done(p, loc, CancelRet(loc[p].op, "not_found"))
       ELSE IF bookings[b].status = "cancelled"
         THEN Done(p, l, CancelRet(loc[p].op, "returned"))
       ELSE Goto(p, "cn_relRead") /\ loc' = l
  /\ UNCHANGED <<now, store, hist>>

\* findById and the status checks; doc is the booking document as loaded
CancelFind(p) ==
  /\ pc[p] = "cn_find"
  /\ LET b == loc[p].b
         l == [loc EXCEPT ![p].doc = <<bookings[b]>>]
     IN
       IF b \notin BookingIds
         THEN Done(p, loc, CancelRet(loc[p].op, "not_found"))
       ELSE IF bookings[b].status = "cancelled"
         THEN Done(p, l, CancelRet(loc[p].op, "returned"))
       ELSE IF bookings[b].status = "confirmed"
         THEN Done(p, l, CancelRet(loc[p].op, "bad_request"))
       ELSE Goto(p, "cn_relRead") /\ loc' = l
  /\ UNCHANGED <<now, store, hist>>

\* ShowtimesService.releaseSeats: findOne loads the showtime document
CancelReleaseRead(p) ==
  /\ pc[p] = "cn_relRead"
  /\ loc' = [loc EXCEPT ![p].snap = bookedSeats, ![p].stale = FALSE]
  /\ Goto(p, "cn_relSave")
  /\ UNCHANGED <<now, store, hist>>

\* ShowtimesService.releaseSeats: bookedSeats = bookedSeats.filter(...); save().
\* An unchanged array is not written; a changed one is $set under the version
\* check of the loaded document.
CancelReleaseSave(p) ==
  /\ pc[p] = "cn_relSave"
  /\ LET kept == WithoutSeats(loc[p].snap, bookings[loc[p].b].seats) IN
       IF kept = loc[p].snap
         THEN /\ Goto(p, "cn_unlock")
              /\ loc' = [loc EXCEPT ![p].snap = <<>>]
              /\ UNCHANGED bookedSeats
       ELSE IF loc[p].stale
         THEN /\ Done(p, [loc EXCEPT ![p].snap = <<>>, ![p].stale = FALSE],
                      CancelRet(loc[p].op, "error"))
              /\ UNCHANGED bookedSeats
       ELSE /\ bookedSeats' = kept
            /\ loc' = Bump(p, [loc EXCEPT ![p].snap = <<>>])
            /\ Goto(p, "cn_unlock")
  /\ UNCHANGED <<now, tempLockedSeats, bookings, payments, hist>>

\* unlockSeatsInDB with the booking's seats and the booking's user
CancelUnlock(p) ==
  /\ pc[p] = "cn_unlock"
  /\ tempLockedSeats' = UnlockSeats(tempLockedSeats, bookings[loc[p].b].seats,
                                    bookings[loc[p].b].userId)
  /\ Goto(p, "cn_save")
  /\ UNCHANGED <<now, bookedSeats, bookings, payments, loc, hist>>

\* booking.status = CANCELLED; save()
CancelSave(p) ==
  /\ pc[p] = "cn_save"
  /\ bookings' = [bookings EXCEPT ![loc[p].b].status = "cancelled"]
  /\ Done(p, loc, CancelRet(loc[p].op, "returned"))
  /\ UNCHANGED <<now, bookedSeats, tempLockedSeats, payments, hist>>

\* ------------------------------------------ BookingsService.extendSeatLock
\* updateMany: the showtime matches when some lock is on one of the seats and
\* some lock belongs to the user; arrayFilters [{ 'elem.userId': userId }] then
\* sets expiresAt on every lock of the user
ExtendLocks(locks, seats, u, exp) ==
  IF /\ \E i \in DOMAIN locks : locks[i].seat \in Range(seats)
     /\ \E i \in DOMAIN locks : locks[i].userId = u
    THEN [i \in DOMAIN locks |-> IF locks[i].userId = u
                                   THEN [locks[i] EXCEPT !.expiresAt = exp]
                                   ELSE locks[i]]
    ELSE locks

\* findById, the owner check and the PENDING check; newExpiresAt
ExtendStart(p, b, u) ==
  /\ pc[p] = "idle"
  /\ LET l == [loc EXCEPT ![p] = [Idle EXCEPT !.op = "extend", !.b = b, !.userId = u,
                                            !.exp = now + HOLD_TTL]]
     IN
       IF b \notin BookingIds
         THEN Done(p, l, "not_found")
       ELSE IF bookings[b].userId # u
         THEN Done(p, l, "bad_request")
       ELSE IF bookings[b].status # "pending"
         THEN Done(p, l, "bad_request")
       ELSE loc' = [l EXCEPT ![p].doc = <<bookings[b]>>] /\ Goto(p, "ex_update")
  /\ hist' = NoHist
  /\ UNCHANGED <<now, store>>

\* showtimeModel.updateMany with the seats of the booking as loaded
ExtendUpdate(p) ==
  /\ pc[p] = "ex_update"
  /\ tempLockedSeats' = ExtendLocks(tempLockedSeats, loc[p].doc[1].seats, loc[p].userId,
                                    loc[p].exp)
  /\ Done(p, loc, "ok")
  /\ UNCHANGED <<now, bookedSeats, bookings, payments, hist>>

\* -------------------------------- BookingsService.autoCancelExpiredBookings
\* find({ status: PENDING, createdAt: { $lt: now - 15 min } })
\* Mutation of ExpiredBookings: the query asks for CONFIRMED bookings.
ExpiredBookingsWrongStatus ==
  LET Expired(b) == bookings[b].status = "confirmed" /\ bookings[b].createdAt < now - EXPIRY_WINDOW
      ids == [b \in BookingIds |-> b]
  IN SelectSeq(ids, Expired)

ExpiredBookings ==
  LET Expired(b) == bookings[b].status = "pending" /\ bookings[b].createdAt < now - EXPIRY_WINDOW
      ids == [b \in BookingIds |-> b]
  IN SelectSeq(ids, Expired)

SweepStart(p) ==
  /\ pc[p] = "idle"
  /\ IF ExpiredBookings = <<>>
       THEN Done(p, [loc EXCEPT ![p] = [Idle EXCEPT !.op = "sweep"]], "ok")
       ELSE /\ loc' = [loc EXCEPT ![p] = [Idle EXCEPT !.op = "sweep", !.list = ExpiredBookings]]
            /\ Goto(p, "sw_save")
  /\ hist' = NoHist
  /\ UNCHANGED <<now, store>>

\* booking.status = CANCELLED; save()
SweepSave(p) ==
  /\ pc[p] = "sw_save"
  /\ bookings' = [bookings EXCEPT ![Head(loc[p].list)].status = "cancelled"]
  /\ Goto(p, "sw_pull")
  /\ UNCHANGED <<now, bookedSeats, tempLockedSeats, payments, loc, hist>>

\* $pull of the booking's seats from bookedSeats and of the user's locks on them
SweepPull(p) ==
  /\ pc[p] = "sw_pull"
  /\ LET bk == bookings[Head(loc[p].list)] IN
       /\ bookedSeats' = WithoutSeats(bookedSeats, bk.seats)
       /\ tempLockedSeats' = UnlockSeats(tempLockedSeats, bk.seats, bk.userId)
  /\ IF Tail(loc[p].list) = <<>>
       THEN Done(p, [loc EXCEPT ![p].list = <<>>], "ok")
       ELSE Goto(p, "sw_save") /\ loc' = [loc EXCEPT ![p].list = Tail(loc[p].list)]
  /\ UNCHANGED <<now, bookings, payments, hist>>

\* ----------------------------------- BookingsService.cleanupExpiredSeatLocks
CleanupExpiredSeatLocks(p) ==
  /\ pc[p] = "idle"
  /\ tempLockedSeats' = PullExpired(tempLockedSeats, now)
  /\ tempLockedSeats' # tempLockedSeats
  /\ hist' = NoHist
  /\ UNCHANGED <<now, bookedSeats, bookings, payments, pc, loc>>

\* ------------------------------------ ShowtimesService.getAvailableSeats
\* Mutation of LiveLocks: the inline purge is dropped.
LiveLocksNoPurge(locks, t) == locks

\* tempLockedSeats.filter(lock => lock.expiresAt > now)
LiveLocks(locks, t) ==
  LET Keep(l) == l.expiresAt > t IN SelectSeq(locks, Keep)

\* What getAvailableSeats returns, computed from the loaded document after the filter
SeatStatus(booked, locks) ==
  [bookedSeats |-> booked,
   lockedSeats |-> [i \in 1..Len(locks) |-> locks[i].seat],
   availableSeats |-> TotalSeats - Len(booked) - Len(locks)]

\* findOne and the filter of the expired locks; exp keeps the time of the read
SnapshotRead(p) ==
  /\ pc[p] = "idle"
  /\ loc' = [loc EXCEPT ![p] = [Idle EXCEPT !.op = "snapshot", !.exp = now,
                                            !.snap = tempLockedSeats,
                                            !.list = LiveLocks(tempLockedSeats, now),
                                            !.doc = <<SeatStatus(bookedSeats,
                                                        LiveLocks(tempLockedSeats, now))>>]]
  /\ Goto(p, "sn_save")
  /\ hist' = NoHist
  /\ UNCHANGED <<now, store>>

\* showtime.save(): an unchanged array is not written, a changed one is $set
\* under the version check of the loaded document; then the result is returned
SnapshotSave(p) ==
  /\ pc[p] = "sn_save"
  /\ LET l == [loc EXCEPT ![p].snap = <<>>, ![p].list = <<>>, ![p].stale = FALSE] IN
       IF loc[p].list = loc[p].snap
         THEN Done(p, l, "ok") /\ UNCHANGED tempLockedSeats
       ELSE IF loc[p].stale
         THEN Done(p, [l EXCEPT ![p].doc = <<>>], "error") /\ UNCHANGED tempLockedSeats
       ELSE /\ tempLockedSeats' = loc[p].list
            /\ Done(p, Bump(p, l), "ok")
  /\ UNCHANGED <<now, bookedSeats, bookings, payments, hist>>

\* ------------------------------------------------- gateway callback payloads
\* HMAC of the payload under the gateway secret, reduced to a checksum over
\* the signed fields; a payload verifies when its signature field equals it.
HmacVNPay(d) ==
  (d.ref + (IF d.code = "00" THEN 0 ELSE 1) + (IF d.ts = "02" THEN 1 ELSE 0)) % SigSpace

HmacMoMo(d) == (d.ref + (IF d.rcode = 0 THEN 0 ELSE 1) + 1) % SigSpace

\* VNPayService.verifyReturnUrl: isValid, and whether it classifies the
\* callback as a successful payment
VerifyReturnUrl(d) ==
  [isValid |-> d.sig = HmacVNPay(d),
   success |-> d.sig = HmacVNPay(d) /\ d.code = "00" /\ d.ts \in {"absent", "00"}]

\* MomoService.verifySignature
VerifySignature(d) == d.sig = HmacMoMo(d)

CallbackOps == {"vnp_return", "vnp_ipn", "momo_return", "momo_ipn"}

ValidSig(d) ==
  CASE d.kind \in {"vnp_return", "vnp_ipn"} -> VerifyReturnUrl(d).isValid
    [] d.kind \in {"momo_return", "momo_ipn"} -> VerifySignature(d)
    [] OTHER -> FALSE

VNPayPayloads(kind) ==
  {[kind |-> kind, ref |-> b, code |-> c, ts |-> t, rcode |-> 0 - 1, sig |-> g] :
     b \in BookingIds, c \in ResponseCodes, t \in TransactionStatuses, g \in Signatures}

MoMoPayloads(kind) ==
  {[kind |-> kind, ref |-> i, code |-> "none", ts |-> "none", rcode |-> r, sig |-> g] :
     i \in PaymentIds, r \in ResultCodes, g \in Signatures}

\* The gateway signs a callback only for an order it was asked to collect:
\* vnp_TxnRef is built by createPaymentUrl from the booking of a VNPay intent,
\* the MoMo orderId is the transactionId of a MoMo payment row.
GatewayIssued(d) ==
  CASE d.kind \in {"vnp_return", "vnp_ipn"} ->
         \E i \in PaymentIds : payments[i].bookingId = d.ref /\ payments[i].method = "vnpay"
    [] d.kind \in {"momo_return", "momo_ipn"} ->
         d.ref \in PaymentIds /\ payments[d.ref].method = "momo"
    [] OTHER -> FALSE

Repeat(d) == IF hist.cb = d THEN [hist EXCEPT !.rep = TRUE] ELSE NoHist

\* -------------------------------------------------- payment intent creation
IntentMethod(op) ==
  CASE op = "vnp_create" -> "vnpay" [] op = "momo_create" -> "momo" [] OTHER -> "cash"

\* create, createVNPayPayment, createMoMoPayment: bookingsService.findOne and
\* the pending check
IntentStart(p, op, b, amt) ==
  /\ pc[p] = "idle"
  /\ b \in BookingIds
  /\ Len(payments) + ActiveIntents < MaxPayments
  /\ IF bookings[b].status # "pending"
       THEN Done(p, [loc EXCEPT ![p] = [Idle EXCEPT !.op = op, !.b = b, !.amount = amt]],
                 "bad_request")
       ELSE /\ loc' = [loc EXCEPT ![p] = [Idle EXCEPT !.op = op, !.b = b, !.amount = amt]]
            /\ Goto(p, IF op = "vnp_create" THEN "pi_exist" ELSE "pi_save")
  /\ hist' = NoHist
  /\ UNCHANGED <<now, store>>

\* createVNPayPayment: findOne of a PENDING or COMPLETED payment of the booking
IntentExisting(p) ==
  /\ pc[p] = "pi_exist"
  /\ LET Live(x) == x.bookingId = loc[p].b /\ x.status \in {"pending", "completed"}
         i == FindFirst(payments, Live)
     IN IF i # 0 /\ payments[i].status = "completed"
          THEN Done(p, loc, "bad_request")
          ELSE Goto(p, "pi_save") /\ UNCHANGED loc
  /\ UNCHANGED <<now, store, hist>>

\* payment.save() of the new PENDING row
IntentSave(p) ==
  /\ pc[p] = "pi_save"
  /\ payments' = Append(payments, [bookingId |-> loc[p].b, status |-> "pending",
                                   method |-> IntentMethod(loc[p].op),
                                   amount |-> loc[p].amount])
  /\ Done(p, [loc EXCEPT ![p].pay = Len(payments) + 1], "ok")
  /\ UNCHANGED <<now, bookedSeats, tempLockedSeats, bookings, hist>>

\* --------------------------------------------- PaymentsService.processPayment
ProcessStart(p, i) ==
  /\ pc[p] = "idle"
  /\ i \in PaymentIds
  /\ IF payments[i].status # "pending"
       THEN Done(p, [loc EXCEPT ![p] = [Idle EXCEPT !.op = "process", !.pay = i]], "bad_request")
       ELSE /\ loc' = [loc EXCEPT ![p] = [Idle EXCEPT !.op = "process", !.pay = i]]
            /\ Goto(p, "pp_save")
  /\ hist' = NoHist
  /\ UNCHANGED <<now, store>>

\* payment.status = COMPLETED; save(); then confirmBooking
ProcessSave(p) ==
  /\ pc[p] = "pp_save"
  /\ payments' = [payments EXCEPT ![loc[p].pay].status = "completed"]
  /\ loc' = [loc EXCEPT ![p].b = payments[loc[p].pay].bookingId]
  /\ Goto(p, "cf_find")
  /\ UNCHANGED <<now, bookedSeats, tempLockedSeats, bookings, hist>>

\* ----------------------------------------------- PaymentsService.refund
\* Mutation of RefundStart: the COMPLETED check is dropped.
RefundStartNoStatusCheck(p, i) ==
  /\ pc[p] = "idle"
  /\ LET l == [loc EXCEPT ![p] = [Idle EXCEPT !.op = "refund", !.pay = i]] IN
       IF i \notin PaymentIds
         THEN Done(p, l, "not_found")
         ELSE loc' = l /\ Goto(p, "rf_save")
  /\ hist' = NoHist
  /\ UNCHANGED <<now, store>>

\* findById, the not-found check and the COMPLETED check
RefundStart(p, i) ==
  /\ pc[p] = "idle"
  /\ LET l == [loc EXCEPT ![p] = [Idle EXCEPT !.op = "refund", !.pay = i]] IN
       IF i \notin PaymentIds
         THEN Done(p, l, "not_found")
       ELSE IF payments[i].status # "completed"
         THEN Done(p, l, "bad_request")
       ELSE loc' = l /\ Goto(p, "rf_save")
  /\ hist' = NoHist
  /\ UNCHANGED <<now, store>>

\* payment.status = REFUNDED; save(); then cancelBooking, whose exception escapes
RefundSave(p) ==
  /\ pc[p] = "rf_save"
  /\ payments' = [payments EXCEPT ![loc[p].pay].status = "refunded"]
  /\ loc' = [loc EXCEPT ![p].b = payments[loc[p].pay].bookingId]
  /\ Goto(p, "cn_find")
  /\ UNCHANGED <<now, bookedSeats, tempLockedSeats, bookings, hist>>

\* ------------------------------------- handleVNPayReturn and handleVNPayIPN
VNPayStart(p, d) ==
  /\ pc[p] = "idle"
  /\ d \in VNPayPayloads("vnp_return") \cup VNPayPayloads("vnp_ipn")
  /\ VerifyReturnUrl(d).isValid => GatewayIssued(d)
  /\ LET l == [loc EXCEPT ![p] = [Idle EXCEPT !.op = d.kind, !.data = d, !.b = d.ref]] IN
       IF ~VerifyReturnUrl(d).isValid
         THEN Done(p, l, "failure")
         ELSE /\ loc' = l
              /\ Goto(p, IF d.kind = "vnp_ipn" THEN "vi_check"
                         ELSE IF d.code = "00" THEN "vc_find" ELSE "vf_find")
  /\ hist' = Repeat(d)
  /\ UNCHANGED <<now, store>>

\* handleVNPayIPN: findOne of a COMPLETED payment of the booking
VNPayIpnCheck(p) ==
  /\ pc[p] = "vi_check"
  /\ IF \E i \in PaymentIds : payments[i].bookingId = loc[p].b /\ payments[i].status = "completed"
       THEN Done(p, loc, "success")
       ELSE Goto(p, IF loc[p].data.code = "00" THEN "vc_find" ELSE "vf_find") /\ UNCHANGED loc
  /\ UNCHANGED <<now, store, hist>>

\* completeVNPayPayment / failVNPayPayment: findOne of a PENDING payment
VNPayFind(p) ==
  /\ pc[p] \in {"vc_find", "vf_find"}
  /\ LET Pending(x) == x.bookingId = loc[p].b /\ x.status = "pending"
         i == FindFirst(payments, Pending)
     IN IF i = 0
          THEN Done(p, loc, IF pc[p] = "vc_find" THEN "success" ELSE "failure")
          ELSE /\ loc' = [loc EXCEPT ![p].pay = i]
               /\ Goto(p, IF pc[p] = "vc_find" THEN "vc_save" ELSE "vf_save")
  /\ UNCHANGED <<now, store, hist>>

\* completeVNPayPayment: status COMPLETED; then confirmBooking
VNPayCompleteSave(p) ==
  /\ pc[p] = "vc_save"
  /\ payments' = [payments EXCEPT ![loc[p].pay].status = "completed"]
  /\ Goto(p, "cf_find")
  /\ UNCHANGED <<now, bookedSeats, tempLockedSeats, bookings, loc, hist>>

\* failVNPayPayment: status FAILED
VNPayFailSave(p) ==
  /\ pc[p] = "vf_save"
  /\ payments' = [payments EXCEPT ![loc[p].pay].status = "failed"]
  /\ Done(p, loc, "failure")
  /\ UNCHANGED <<now, bookedSeats, tempLockedSeats, bookings, hist>>

\* --------------------------------------- handleMoMoReturn and handleMoMoIPN
\* handleMoMoReturn reads orderId and resultCode and goes straight to the lookup
MoMoReturnStart(p, d) ==
  /\ pc[p] = "idle"
  /\ d \in MoMoPayloads("momo_return")
  /\ VerifySignature(d) => GatewayIssued(d)
  /\ loc' = [loc EXCEPT ![p] = [Idle EXCEPT !.op = d.kind, !.data = d]]
  /\ Goto(p, "mo_find")
  /\ hist' = Repeat(d)
  /\ UNCHANGED <<now, store>>

\* handleMoMoIPN: verifySignature first
MoMoIpnStart(p, d) ==
  /\ pc[p] = "idle"
  /\ d \in MoMoPayloads("momo_ipn")
  /\ VerifySignature(d) => GatewayIssued(d)
  /\ LET l == [loc EXCEPT ![p] = [Idle EXCEPT !.op = d.kind, !.data = d]] IN
       IF ~VerifySignature(d)
         THEN Done(p, l, "ack")
         ELSE loc' = l /\ Goto(p, "mo_find")
  /\ hist' = Repeat(d)
  /\ UNCHANGED <<now, store>>

\* findOne({ transactionId: orderId, status: PENDING }).  The payment id stands
\* for the transactionId the row was created with; a row keeps it for as long
\* as its status is PENDING.
MoMoFind(p) ==
  /\ pc[p] = "mo_find"
  /\ LET d == loc[p].data
         found == d.ref \in PaymentIds /\ payments[d.ref].status = "pending"
     IN IF ~found
          THEN Done(p, loc, IF d.kind = "momo_ipn" THEN "ack"
                            ELSE IF d.rcode = 0 THEN "success" ELSE "failure")
          ELSE /\ loc' = [loc EXCEPT ![p].pay = d.ref]
               /\ Goto(p, "mo_save")
  /\ UNCHANGED <<now, store, hist>>

\* payment.save() with COMPLETED or FAILED; then confirmBooking or cancelBooking
MoMoSave(p) ==
  /\ pc[p] = "mo_save"
  /\ LET d == loc[p].data
         i == loc[p].pay
     IN /\ payments' = [payments EXCEPT ![i].status =
                                       IF d.rcode = 0 THEN "completed" ELSE "failed"]
        /\ loc' = [loc EXCEPT ![p].b = payments[i].bookingId]
        /\ Goto(p, IF d.rcode = 0 THEN "cf_find" ELSE "cn_find")
  /\ UNCHANGED <<now, bookedSeats, tempLockedSeats, bookings, hist>>

\* ------------------------------------------------------------ environment
\* The handler's response has been delivered.  After a validly signed gateway
\* callback the payload and the stored state are remembered, so that the next
\* delivery of the same payload can be compared with the first.
Finish(p) ==
  /\ pc[p] = "done"
  /\ pc' = [pc EXCEPT ![p] = "idle"]
  /\ loc' = [loc EXCEPT ![p] = Idle]
  /\ hist' = IF loc[p].op \in CallbackOps /\ ValidSig(loc[p].data)
               THEN IF hist.rep THEN [hist EXCEPT !.rep = FALSE]
                    ELSE [cb |-> loc[p].data, snap |-> store, rep |-> FALSE]
               ELSE NoHist
  /\ UNCHANGED <<now, store>>

\* Five minutes pass.
Tick ==
  /\ now < MaxTime
  /\ now' = now + 1
  /\ hist' = NoHist
  /\ UNCHANGED <<store, pc, loc>>

\* ---------------------------------------------------------- specifications
CreateSteps(p) ==
  \/ CreateLock(p) \/ CreateFind(p) \/ CreateSave(p) \/ CreateSaveDuplicateCode(p)
  \/ CreateCommit(p) \/ CreateNotify(p) \/ CreateUnlock(p)

ConfirmSteps(p) ==
  \/ ConfirmFind(p) \/ ConfirmBookRead(p) \/ ConfirmBookSave(p)
  \/ ConfirmPull(p) \/ ConfirmSave(p)

CancelSteps(p) ==
  \/ CancelFind(p) \/ CancelReleaseRead(p) \/ CancelReleaseSave(p)
  \/ CancelUnlock(p) \/ CancelSave(p)

\* Seat and booking lifecycle.  Requests are served one at a time; the clock
\* may advance between any two storage steps.
Next ==
  \/ Tick
  \/ \E p \in SeqProcs :
       \/ \E u \in Users, seats \in SeatLists : CreateStart(p, u, seats)
       \/ CreateSteps(p)
       \/ CreateNotifyFails(p)
       \/ \E b \in 1..MaxBookings : AdminConfirmStart(p, b) \/ UserCancelStart(p, b)
       \/ ConfirmSteps(p)
       \/ CancelSteps(p)
       \/ SweepStart(p) \/ SweepSave(p) \/ SweepPull(p)
       \/ CleanupExpiredSeatLocks(p)
       \/ Finish(p)

Spec == Init /\ [][Next]_vars

\* Payment coordination for one booking that create has just returned:
\* user u1 holds seat A1 for a PENDING booking.
InitPay ==
  /\ now = 0
  /\ bookedSeats = <<>>
  /\ tempLockedSeats = NewLocks(<<"A1">>, "u1", HOLD_TTL)
  /\ bookings = <<[userId |-> "u1", seats |-> <<"A1">>, status |-> "pending", createdAt |-> 0,
                 totalPrice |-> ShowtimePrice]>>
  /\ payments = <<>>
  /\ pc = [p \in Procs |-> "idle"]
  /\ loc = [p \in Procs |-> Idle]
  /\ hist = NoHist

NextPay ==
  \E p \in SeqProcs :
    \/ \E b \in 1..MaxBookings : AdminConfirmStart(p, b) \/ UserCancelStart(p, b)
    \/ ConfirmSteps(p)
    \/ CancelSteps(p)
    \/ \E op \in {"pay_create", "vnp_create", "momo_create"}, b \in 1..MaxBookings,
          amt \in Amounts : IntentStart(p, op, b, amt)
    \/ IntentExisting(p) \/ IntentSave(p)
    \/ \E i \in 1..MaxPayments : ProcessStart(p, i)
    \/ ProcessSave(p)
    \/ \E i \in 1..MaxPayments : RefundStart(p, i)
    \/ RefundSave(p)
    \/ \E d \in VNPayPayloads("vnp_return") \cup VNPayPayloads("vnp_ipn") : VNPayStart(p, d)
    \/ VNPayIpnCheck(p) \/ VNPayFind(p) \/ VNPayCompleteSave(p) \/ VNPayFailSave(p)
    \/ \E d \in MoMoPayloads("momo_return") : MoMoReturnStart(p, d)
    \/ \E d \in MoMoPayloads("momo_ipn") : MoMoIpnStart(p, d)
    \/ MoMoFind(p) \/ MoMoSave(p)
    \/ Finish(p)

SpecPay == InitPay /\ [][NextPay]_vars

\* Two create requests run concurrently against the free showtime, each once.
NextRace ==
  \E p \in Procs :
    \/ \E u \in Users, seats \in RaceSeatLists : CreateStart(p, u, seats)
    \/ CreateSteps(p)

SpecRace == Init /\ [][NextRace]_vars

\* Gateway callbacks delivered concurrently for one PENDING booking that has
\* one PENDING payment row (the state after create and one payment intent).
InitCallbackRace ==
  /\ now = 0
  /\ bookedSeats = <<>>
  /\ tempLockedSeats = NewLocks(<<"A1">>, "u1", HOLD_TTL)
  /\ bookings = <<[userId |-> "u1", seats |-> <<"A1">>, status |-> "pending", createdAt |-> 0,
                 totalPrice |-> ShowtimePrice]>>
  /\ \E m \in {"vnpay", "momo"} :
       payments = <<[bookingId |-> 1, status |-> "pending", method |-> m,
                      amount |-> ShowtimePrice]>>
  /\ pc = [p \in Procs |-> "idle"]
  /\ loc = [p \in Procs |-> Idle]
  /\ hist = NoHist

NextCallbackRace ==
  \E p \in Procs :
    \/ \E d \in VNPayPayloads("vnp_return") \cup VNPayPayloads("vnp_ipn") : VNPayStart(p, d)
    \/ VNPayIpnCheck(p) \/ VNPayFind(p) \/ VNPayCompleteSave(p) \/ VNPayFailSave(p)
    \/ \E d \in MoMoPayloads("momo_return") : MoMoReturnStart(p, d)
    \/ \E d \in MoMoPayloads("momo_ipn") : MoMoIpnStart(p, d)
    \/ MoMoFind(p) \/ MoMoSave(p)
    \/ ConfirmSteps(p)
    \/ CancelSteps(p)

SpecCallbackRace == InitCallbackRace /\ [][NextCallbackRace]_vars

\* confirmBooking, cancelBooking and the expiry sweeper run concurrently on one
\* PENDING booking that is older than the expiry window (the state create
\* leaves once EXPIRY_WINDOW + 1 ticks have passed and no cleanup has run).
InitLifecycleRace ==
  /\ now = EXPIRY_WINDOW + 1
  /\ bookedSeats = <<>>
  /\ tempLockedSeats = NewLocks(<<"A1">>, "u1", HOLD_TTL)
  /\ bookings = <<[userId |-> "u1", seats |-> <<"A1">>, status |-> "pending", createdAt |-> 0,
                 totalPrice |-> ShowtimePrice]>>
  /\ payments = <<>>
  /\ pc = [p \in Procs |-> "idle"]
  /\ loc = [p \in Procs |-> Idle]
  /\ hist = NoHist

NextLifecycleRace ==
  \E p \in Procs :
    \/ \E b \in 1..MaxBookings : AdminConfirmStart(p, b) \/ UserCancelStart(p, b)
    \/ ConfirmSteps(p)
    \/ CancelSteps(p)
    \/ SweepStart(p) \/ SweepSave(p) \/ SweepPull(p)
    \/ Finish(p)

SpecLifecycleRace == InitLifecycleRace /\ [][NextLifecycleRace]_vars

\* Expiry: user u1's booking of InitPay is left alone and another user creates
\* bookings; the two cron jobs run on their own process, availability is
\* queried at any time and the clock runs.
CronProc == "p2"
OtherUser == "u2"

Sweeper == SweepStart(CronProc) \/ SweepSave(CronProc) \/ SweepPull(CronProc) \/ Finish(CronProc)

NextExpiry ==
  \/ Tick
  \/ \E p \in SeqProcs :
       \/ \E seats \in SeatLists : CreateStart(p, OtherUser, seats)
       \/ CreateSteps(p)
       \/ SnapshotRead(p) \/ SnapshotSave(p)
       \/ Finish(p)
  \/ Sweeper
  \/ CleanupExpiredSeatLocks(CronProc)

\* @Cron(EVERY_5_MINUTES): the sweeper is started again and again and each of
\* its storage steps completes.
SpecExpiry == InitPay /\ [][NextExpiry]_vars /\ WF_vars(Sweeper)

\* Confirmation and cancellation requests for the booking of InitPay, served
\* one at a time while the clock runs and the lock cleanup job fires.
NextConfirmCancel ==
  \/ Tick
  \/ \E p \in SeqProcs :
       \/ \E b \in 1..MaxBookings : AdminConfirmStart(p, b) \/ UserCancelStart(p, b)
       \/ ConfirmSteps(p)
       \/ CancelSteps(p)
       \/ CleanupExpiredSeatLocks(p)
       \/ Finish(p)

SpecConfirmCancel == InitPay /\ [][NextConfirmCancel]_vars

\* Lock extension: besides the booking of InitPay, users create bookings for
\* seat A2, extend and cancel bookings, one request at a time; the clock runs.
ExtendSeatLists == {<<"A2">>}

NextExtend ==
  \/ Tick
  \/ \E p \in SeqProcs :
       \/ \E u \in Users, seats \in ExtendSeatLists : CreateStart(p, u, seats)
       \/ CreateSteps(p)
       \/ \E b \in 1..MaxBookings, u \in Users : ExtendStart(p, b, u)
       \/ ExtendUpdate(p)
       \/ \E b \in 1..MaxBookings : UserCancelStart(p, b)
       \/ CancelSteps(p)
       \/ Finish(p)

SpecExtend == InitPay /\ [][NextExtend]_vars

\* Price freeze: next to the expired one-seat PENDING booking of
\* InitLifecycleRace another user creates two-seat bookings; bookings are
\* extended, swept, and confirmed or cancelled by MoMo return callbacks, one
\* request at a time.
FreezeSeatLists == {<<"A1", "A2">>}

NextFreeze ==
  \E p \in SeqProcs :
    \/ \E seats \in FreezeSeatLists : CreateStart(p, OtherUser, seats)
    \/ CreateSteps(p)
    \/ ConfirmSteps(p)
    \/ CancelSteps(p)
    \/ \E b \in 1..MaxBookings, u \in Users : ExtendStart(p, b, u)
    \/ ExtendUpdate(p)
    \/ SweepStart(p) \/ SweepSave(p) \/ SweepPull(p)
    \/ \E b \in 1..MaxBookings : IntentStart(p, "momo_create", b, ShowtimePrice)
    \/ IntentSave(p)
    \/ \E d \in MoMoPayloads("momo_return") : MoMoReturnStart(p, d)
    \/ MoMoFind(p) \/ MoMoSave(p)
    \/ Finish(p)

SpecFreeze == InitLifecycleRace /\ [][NextFreeze]_vars

\* Refunds: the booking of InitPay is paid through MoMo; the return callback
\* reports success or failure, and refunds are requested for any payment id.
NextRefund ==
  \E p \in SeqProcs :
    \/ \E b \in 1..MaxBookings : IntentStart(p, "momo_create", b, ShowtimePrice)
    \/ IntentSave(p)
    \/ \E d \in MoMoPayloads("momo_return") : MoMoReturnStart(p, d)
    \/ MoMoFind(p) \/ MoMoSave(p)
    \/ ConfirmSteps(p)
    \/ CancelSteps(p)
    \/ \E i \in 1..MaxPayments : RefundStart(p, i)
    \/ RefundSave(p)
    \/ Finish(p)

SpecRefund == InitPay /\ [][NextRefund]_vars

\* Payment intents against a running processPayment: the booking of
\* InitCallbackRace has one PENDING payment; requests run concurrently.
IntentOps == {"pay_create", "vnp_create", "momo_create"}

NextIntentRace ==
  \E p \in Procs :
    \/ \E i \in 1..MaxPayments : ProcessStart(p, i)
    \/ ProcessSave(p)
    \/ ConfirmSteps(p)
    \/ \E op \in IntentOps, b \in 1..MaxBookings : IntentStart(p, op, b, ShowtimePrice)
    \/ IntentExisting(p) \/ IntentSave(p)

SpecIntentRace == InitCallbackRace /\ [][NextIntentRace]_vars

\* Create with seat lists the DTO lets through (@IsArray, @IsString each): an
\* empty list, a list with one label twice, a proper list; bookings are
\* confirmed and availability is queried, one request at a time.
ValidateSeatLists == {<<>>, <<"A1", "A1">>, <<"A1">>}

NextValidate ==
  \E p \in SeqProcs :
    \/ \E u \in Users, seats \in ValidateSeatLists : CreateStart(p, u, seats)
    \/ CreateSteps(p)
    \/ \E b \in 1..MaxBookings : AdminConfirmStart(p, b)
    \/ ConfirmSteps(p)
    \/ SnapshotRead(p) \/ SnapshotSave(p)
    \/ Finish(p)

SpecValidate == Init /\ [][NextValidate]_vars

\* Readers next to create: create and getAvailableSeats requests run
\* concurrently against the free showtime.
NextVisibility ==
  \E p \in Procs :
    \/ \E u \in Users, seats \in SeatLists : CreateStart(p, u, seats)
    \/ CreateSteps(p)
    \/ SnapshotRead(p) \/ SnapshotSave(p)
    \/ Finish(p)

SpecVisibility == Init /\ [][NextVisibility]_vars

\* getAvailableSeats next to create: the showtime of InitLifecycleRace still
\* carries the run-out hold of booking 1; create and getAvailableSeats
\* requests run concurrently.
NextSnapshotRace ==
  \E p \in Procs :
    \/ \E seats \in SeatLists : CreateStart(p, OtherUser, seats)
    \/ CreateSteps(p)
    \/ SnapshotRead(p) \/ SnapshotSave(p)
    \/ Finish(p)

SpecSnapshotRace == InitLifecycleRace /\ [][NextSnapshotRace]_vars

\* ------------------------------------------------------------------ claims
Quiescent == \A p \in Procs : pc[p] = "idle"

HoldsOn(seat) == {i \in DOMAIN tempLockedSeats : tempLockedSeats[i].seat = seat}

\* C1: no double-sell.  In every reachable state no seat of the showtime
\* belongs to two different bookings whose status is CONFIRMED.
C1_NoDoubleSell ==
  \A i \in BookingIds, j \in BookingIds :
    (i # j /\ bookings[i].status = "confirmed" /\ bookings[j].status = "confirmed")
      => Range(bookings[i].seats) \cap Range(bookings[j].seats) = {}

\* C2: invariant I1.  In every observable state, the states between the
\* storage steps of confirmBooking included, no seat is in bookedSeats and
\* at the same time has a hold record in tempLockedSeats.
C2_BookedNotHeld ==
  \A i \in DOMAIN tempLockedSeats : tempLockedSeats[i].seat \notin Range(bookedSeats)

\* C3: race for a seat.  When two create calls by different users that ask
\* for a common seat of the free showtime have both returned, exactly one of
\* them returned a PENDING booking and the other failed with a conflict; every
\* common seat then has exactly one hold, owned by the winner, and exactly one
\* booking row.
RacePair(p, q) ==
  /\ p # q
  /\ pc[p] = "done" /\ pc[q] = "done"
  /\ loc[p].op = "create" /\ loc[q].op = "create"
  /\ loc[p].userId # loc[q].userId
  /\ Range(loc[p].seats) \cap Range(loc[q].seats) # {}

C4_CreateAtomicity ==
  \A p \in Procs :
    (pc[p] = "done" /\ loc[p].op = "create" /\ loc[p].ret # "ok") =>
      /\ loc[p].b = 0
      /\ \A i \in DOMAIN tempLockedSeats :
           ~(/\ tempLockedSeats[i].seat \in Range(loc[p].seats)
             /\ tempLockedSeats[i].userId = loc[p].userId
             /\ tempLockedSeats[i].expiresAt = loc[p].exp)

\* C5: invariant I5, PENDING part.  While a booking is PENDING and no request
\* is working on it, each of its seats has an unexpired hold owned by the
\* booking's user, no other user holds the seat and the seat is not booked.
C5_PendingHeld ==
  Quiescent =>
    \A b \in BookingIds :
      bookings[b].status = "pending" =>
        \A s \in Range(bookings[b].seats) :
          /\ \E i \in HoldsOn(s) : /\ tempLockedSeats[i].userId = bookings[b].userId
                                   /\ tempLockedSeats[i].expiresAt >= now
          /\ \A i \in HoldsOn(s) : tempLockedSeats[i].userId = bookings[b].userId
          /\ s \notin Range(bookedSeats)

\* C6: invariant I5, CONFIRMED part.  Every seat of a CONFIRMED booking is in
\* bookedSeats and has no hold, whatever happens to other bookings.
C6_ConfirmedBooked ==
  \A b \in BookingIds :
    bookings[b].status = "confirmed" =>
      \A s \in Range(bookings[b].seats) : s \in Range(bookedSeats) /\ HoldsOn(s) = {}

\* C7: invariant I7.  In every quiescent state a booking is CONFIRMED if and
\* only if at least one of its payments is COMPLETED.
C7_ConfirmedIffPaid ==
  Quiescent =>
    \A b \in BookingIds :
      bookings[b].status = "confirmed" <=>
        \E i \in PaymentIds : payments[i].bookingId = b /\ payments[i].status = "completed"

\* C8: invariant I6.  In every reachable state every booking has at most one
\* payment whose status is PENDING or COMPLETED.
C8_OneLivePayment ==
  \A b \in BookingIds :
    Cardinality({i \in PaymentIds : /\ payments[i].bookingId = b
                                    /\ payments[i].status \in {"pending", "completed"}}) <= 1

\* C9: signature required.  A step of a callback handler that works on a
\* payload whose signature does not verify changes no payment, no booking and
\* no seat state, and when the handler returns it reports failure (the MoMo
\* notification's plain acknowledgement is taken as such a report).
C9_SignatureRequired ==
  [][\A p \in Procs :
       (loc'[p].op \in CallbackOps /\ ~ValidSig(loc'[p].data)) =>
         /\ store' = store
         /\ pc'[p] = "done" => loc'[p].ret \in {"failure", "ack"}]_vars

\* C10: callback idempotence.  When a validly signed callback payload has been
\* processed again right after it was processed, the payments, the bookings
\* and the seat state equal the state its first processing left.
C10_CallbackIdempotent ==
  \A p \in Procs :
    (pc[p] = "done" /\ hist.rep /\ loc[p].data = hist.cb) => store = hist.snap

\* C11: exactly-once confirmation under concurrency.  When two callbacks that
\* report the same successful payment with a valid signature have both been
\* processed, exactly one of them made the payment's PENDING to COMPLETED
\* transition, every seat of the booking is in bookedSeats exactly once, the
\* payment is COMPLETED and the booking is CONFIRMED.
SuccessCallback(p) ==
  /\ pc[p] = "done"
  /\ loc[p].op \in CallbackOps
  /\ ValidSig(loc[p].data)
  /\ IF loc[p].op \in {"vnp_return", "vnp_ipn"}
       THEN VerifyReturnUrl(loc[p].data).success
       ELSE loc[p].data.rcode = 0

Occurrences(seq, x) == Cardinality({i \in DOMAIN seq : seq[i] = x})

C11_ExactlyOnceConfirm ==
  (\A p \in Procs : SuccessCallback(p)) =>
    /\ Cardinality({p \in Procs : loc[p].pay # 0}) = 1
    /\ \A s \in Range(bookings[1].seats) : Occurrences(bookedSeats, s) = 1
    /\ payments[1].status = "completed"
    /\ bookings[1].status = "confirmed"

\* C12: Confirm and Cancel are idempotent.  A confirmBooking call that finds
\* its booking already CONFIRMED returns at once without error, changes no
\* booking, payment or seat state and does not reach the receipt step; a
\* cancelBooking call that finds its booking already CANCELLED does the same.
AlreadyThere(p) ==
  /\ loc[p].b \in BookingIds
  /\ \/ pc[p] = "cf_find" /\ loc[p].op = "confirm" /\ bookings[loc[p].b].status = "confirmed"
     \/ pc[p] = "cn_find" /\ loc[p].op = "cancel" /\ bookings[loc[p].b].status = "cancelled"

C13_Lifecycle ==
  [][\A b \in BookingIds :
       bookings'[b].status # bookings[b].status =>
         \/ bookings[b].status = "pending" /\ bookings'[b].status \in {"confirmed", "cancelled"}
         \/ /\ bookings[b].status = "confirmed"
            /\ bookings'[b].status = "cancelled"
            /\ \E p \in Procs : loc[p].op = "refund" /\ pc'[p] # pc[p]]_vars

\* C14: expiry liveness.  A PENDING booking that nobody pays or cancels and
\* whose age exceeds the expiry window is eventually CANCELLED by the sweeper;
\* and a getAvailableSeats call that reads the showtime while a booking is
\* CANCELLED and no other live booking has its seats reports those seats as
\* neither booked nor locked, with availableSeats back at TotalSeats when no
\* live booking is left.
LiveOthers(b) ==
  {c \in BookingIds : /\ c # b
                      /\ bookings[c].status # "cancelled"
                      /\ Range(bookings[c].seats) \cap Range(bookings[b].seats) # {}}

SnapshotReads(p) == loc[p].op # "snapshot" /\ loc'[p].op = "snapshot"

HoldsRunOut(s) == HoldsOn(s) # {} /\ \A i \in HoldsOn(s) : tempLockedSeats[i].expiresAt < now

C16_CancelRoundTrip ==
  \A p \in Procs :
    (/\ pc[p] = "done" /\ loc[p].op = "cancel" /\ loc[p].ret = "ok"
     /\ loc[p].doc # <<>> /\ loc[p].doc[1].status = "pending") =>
      /\ \A s \in Range(bookings[loc[p].b].seats) : s \notin Range(bookedSeats) /\ HoldsOn(s) = {}
      /\ LockFilter(bookings[loc[p].b].seats)

\* C17: refund effect.  When refund has returned for a COMPLETED payment whose
\* booking it found CONFIRMED, it returned without error, the payment is
\* REFUNDED, the booking is CANCELLED and none of the booking's seats is left
\* in bookedSeats.
C17_RefundEffect ==
  \A p \in Procs :
    (/\ pc[p] = "done" /\ loc[p].op = "refund"
     /\ loc[p].doc # <<>> /\ loc[p].doc[1].status = "confirmed") =>
      /\ loc[p].ret = "ok"
      /\ payments[loc[p].pay].status = "refunded"
      /\ bookings[loc[p].b].status = "cancelled"
      /\ \A s \in Range(bookings[loc[p].b].seats) : s \notin Range(bookedSeats)

FailureCallback(p) ==
  /\ pc[p] = "done"
  /\ loc[p].op \in CallbackOps
  /\ ValidSig(loc[p].data)
  /\ IF loc[p].op \in {"vnp_return", "vnp_ipn"}
       THEN loc[p].data.code # "00"
       ELSE loc[p].data.rcode # 0
  /\ loc[p].pay # 0

C19_FailureCallback ==
  \A p \in Procs :
    FailureCallback(p) =>
      /\ payments[loc[p].pay].status = "failed"
      /\ bookings[loc[p].b].status # "pending"
      /\ bookings[loc[p].b].status = "cancelled" =>
           \A i \in DOMAIN tempLockedSeats :
             ~(/\ tempLockedSeats[i].seat \in Range(bookings[loc[p].b].seats)
               /\ tempLockedSeats[i].userId = bookings[loc[p].b].userId)

\* C20: payment amount matches the frozen price.  Every COMPLETED payment of a
\* CONFIRMED booking has an amount equal to the booking's totalPrice as fixed
\* at creation, whatever amount the client sent with the payment intent.
C20_AmountMatchesPrice ==
  \A b \in BookingIds, i \in PaymentIds :
    (/\ bookings[b].status = "confirmed"
     /\ payments[i].bookingId = b
     /\ payments[i].status = "completed") =>
      payments[i].amount = bookings[b].totalPrice

\* C29: Extend.  extendSeatLock succeeds only for the booking's owner and only
\* while the booking is PENDING, otherwise it fails and changes nothing; its
\* update sets expiresAt to the new expiry on exactly the owner's holds on the
\* booking's seats and leaves every other hold (other users' holds, the same
\* user's holds for other bookings) and bookedSeats unchanged.
C29_Extend ==
  [][\A p \in Procs :
       /\ (pc[p] = "idle" /\ loc'[p].op = "extend") =>
            /\ pc'[p] = "ex_update" <=>
                 /\ loc'[p].b \in BookingIds
                 /\ bookings[loc'[p].b].userId = loc'[p].userId
                 /\ bookings[loc'[p].b].status = "pending"
            /\ pc'[p] # "ex_update" =>
                 /\ pc'[p] = "done"
                 /\ loc'[p].ret \in {"not_found", "bad_request"}
            /\ store' = store
       /\ (pc[p] = "ex_update" /\ pc'[p] # pc[p]) =>
            /\ loc'[p].ret = "ok"
            /\ bookedSeats' = bookedSeats
            /\ bookings' = bookings
            /\ DOMAIN tempLockedSeats' = DOMAIN tempLockedSeats
            /\ \A i \in DOMAIN tempLockedSeats :
                 tempLockedSeats'[i] =
                   IF /\ tempLockedSeats[i].seat \in Range(bookings[loc[p].b].seats)
                      /\ tempLockedSeats[i].userId = bookings[loc[p].b].userId
                     THEN [tempLockedSeats[i] EXCEPT !.expiresAt = loc[p].exp]
                     ELSE tempLockedSeats[i]]_vars

\* C21: price freeze.  Every booking's totalPrice equals the number of its
\* seats times the showtime's price read during create, and no later step
\* (confirm, cancel, extend, sweeper, payment callback) changes the totalPrice
\* or the seat list of a booking.
C21_PriceFreeze ==
  /\ [](\A b \in BookingIds : bookings[b].totalPrice = Len(bookings[b].seats) * ShowtimePrice)
  /\ [][\A b \in BookingIds :
          /\ b \in DOMAIN bookings'
          /\ bookings'[b].totalPrice = bookings[b].totalPrice
          /\ bookings'[b].seats = bookings[b].seats]_vars

C21_Witness ==
  \E b \in BookingIds :
    /\ Len(bookings[b].seats) = 2
    /\ bookings[b].totalPrice = 2 * ShowtimePrice
    /\ bookings[b].status = "confirmed"
    /\ \E i \in PaymentIds : payments[i].bookingId = b /\ payments[i].status = "completed"
    /\ bookings[1].status = "cancelled"

\* C22: refund guard.  A refund of a payment whose status is PENDING, FAILED
\* or REFUNDED fails with a bad-request error and changes neither the payment
\* nor the booking nor any seat state; a refund of an unknown payment id fails
\* with not-found and changes nothing.
C22_RefundGuard ==
  [][\A p \in Procs :
       (pc[p] = "idle" /\ loc'[p].op = "refund") =>
         /\ loc'[p].pay \notin PaymentIds =>
              /\ pc'[p] = "done"
              /\ loc'[p].ret = "not_found"
              /\ store' = store
         /\ (/\ loc'[p].pay \in PaymentIds
             /\ payments[loc'[p].pay].status \in {"pending", "failed", "refunded"}) =>
              /\ pc'[p] = "done"
              /\ loc'[p].ret = "bad_request"
              /\ store' = store]_vars

C22_Witness ==
  \E p \in Procs :
    /\ pc[p] = "done" /\ loc[p].op = "refund" /\ loc[p].ret = "bad_request"
    /\ loc[p].b = 0
    /\ loc[p].pay \in PaymentIds
    /\ payments[loc[p].pay].status = "refunded"
    /\ \E i \in PaymentIds : payments[i].status = "failed"

\* C23: payment intent guard.  create, createVNPayPayment and
\* createMoMoPayment fail with a bad-request error and write no payment row
\* when the booking they load is not PENDING or when a COMPLETED payment of the
\* booking exists at the time of their checks: such a call never reaches the
\* save of a new payment row.
CompletedPaymentOf(b) ==
  \E i \in PaymentIds : payments[i].bookingId = b /\ payments[i].status = "completed"

C23_IntentGuard ==
  [][\A p \in Procs :
       /\ (/\ pc[p] = "idle" /\ loc'[p].op \in IntentOps
           /\ loc'[p].b \in BookingIds
           /\ \/ bookings[loc'[p].b].status # "pending"
              \/ CompletedPaymentOf(loc'[p].b)) =>
            /\ pc'[p] # "pi_save"
            /\ payments' = payments
            /\ pc'[p] = "done" => loc'[p].ret = "bad_request"
       /\ (pc[p] = "pi_exist" /\ CompletedPaymentOf(loc[p].b) /\ pc'[p] # pc[p]) =>
            /\ pc'[p] = "done"
            /\ loc'[p].ret = "bad_request"
            /\ payments' = payments]_vars

\* C24: create input validation.  A create whose seat list is empty or has a
\* seat label twice is rejected with a validation error and writes no booking
\* row and no hold; so no seat label occurs twice in tempLockedSeats or in
\* bookedSeats, and the available count that getAvailableSeats reports is
\* never negative.
InvalidSeats(seats) ==
  \/ seats = <<>>
  \/ \E i \in DOMAIN seats, j \in DOMAIN seats : i # j /\ seats[i] = seats[j]

C24_CreateValidation ==
  /\ \A p \in Procs :
       (loc[p].op = "create" /\ InvalidSeats(loc[p].seats)) =>
         /\ loc[p].b = 0
         /\ loc[p].doc = <<>>
         /\ \A i \in DOMAIN tempLockedSeats :
              ~(/\ tempLockedSeats[i].userId = loc[p].userId
                /\ tempLockedSeats[i].expiresAt = loc[p].exp
                /\ tempLockedSeats[i].seat \in Range(loc[p].seats))
         /\ pc[p] = "done" => loc[p].ret = "validation"
  /\ \A i \in DOMAIN tempLockedSeats, j \in DOMAIN tempLockedSeats :
       i # j => tempLockedSeats[i].seat # tempLockedSeats[j].seat
  /\ \A i \in DOMAIN bookedSeats, j \in DOMAIN bookedSeats :
       i # j => bookedSeats[i] # bookedSeats[j]
  /\ \A p \in Procs :
       (loc[p].op = "snapshot" /\ loc[p].doc # <<>>) => loc[p].doc[1].availableSeats >= 0

\* C25: the return URL always redirects.  Whatever signature verification,
\* payment lookup and confirmBooking do, a request to the VNPay return
\* endpoint ends with a result from which the controller redirects to the
\* success page or to the failure page, never with an exception.
C25_ReturnRedirects ==
  \A p \in Procs :
    (pc[p] = "done" /\ loc[p].op = "vnp_return") => loc[p].ret \in {"success", "failure"}

\* C26: atomic visibility of create.  A getAvailableSeats call that reads the
\* showtime while a create call is in progress never sees the holds of that
\* call while the call's booking row is not yet visible, nor the booking row
\* without its holds.
HoldsOfCall(q) ==
  {i \in DOMAIN tempLockedSeats : /\ tempLockedSeats[i].userId = loc[q].userId
                                  /\ tempLockedSeats[i].expiresAt = loc[q].exp
                                  /\ tempLockedSeats[i].seat \in Range(loc[q].seats)}

C26_CreateVisibility ==
  [][\A p \in Procs :
       SnapshotReads(p) =>
         \A q \in Procs :
           (loc[q].op = "create" /\ pc[q] # "done") =>
             LET seen == {tempLockedSeats[i].seat : i \in HoldsOfCall(q)}
                           \cap Range(loc'[p].doc[1].lockedSeats)
                 row == loc[q].b \in BookingIds
             IN /\ seen # {} => row
                /\ row => seen = Range(loc[q].seats)]_vars

\* C27: a failed create leaves existing holds untouched.  From the step in
\* which lockSeatsInDB reports the conflict to the return of the call, no step
\* of a create that fails with a conflict changes bookedSeats or
\* tempLockedSeats, also when the caller holds one of the requested seats
\* through an earlier PENDING booking of their own.
C27_FailedCreateFrame ==
  [][\A p \in Procs :
       (loc[p].op = "create" /\ loc'[p].ret = "conflict" /\ pc'[p] # pc[p]) =>
         /\ bookedSeats' = bookedSeats
         /\ tempLockedSeats' = tempLockedSeats]_vars

\* C28: the snapshot does not lose holds.  The save of getAvailableSeats never
\* changes bookedSeats and removes from tempLockedSeats only holds whose
\* expiresAt is not after the current time: every unexpired hold, those
\* written by a create that ran between the read and the save included, is
\* still there after the save.
C28_SnapshotKeepsHolds ==
  [][\A p \in Procs :
       (pc[p] = "sn_save" /\ pc'[p] # pc[p]) =>
         /\ bookedSeats' = bookedSeats
         /\ \A i \in DOMAIN tempLockedSeats :
              tempLockedSeats[i].expiresAt > now =>
                tempLockedSeats[i] \in Range(tempLockedSeats')]_vars

\* C30: VNPay success is decided consistently.  A step of handleVNPayReturn or
\* handleVNPayIPN marks a payment COMPLETED or confirms a booking only for a
\* callback that verifyReturnUrl classifies as successful (valid signature,
\* response code '00', transaction status absent or '00'); a validly signed
\* callback classified as failed leaves the booking unconfirmed and the
\* payment not COMPLETED.
C30_VNPaySuccessConsistent ==
  [][\A p \in Procs :
       (/\ loc[p].op \in {"vnp_return", "vnp_ipn"}
        /\ pc'[p] # pc[p]
        /\ \/ \E i \in PaymentIds : /\ payments[i].status # "completed"
                                    /\ payments'[i].status = "completed"
           \/ \E b \in BookingIds : /\ bookings[b].status # "confirmed"
                                    /\ bookings'[b].status = "confirmed") =>
         VerifyReturnUrl(loc[p].data).success]_vars

====
